---- MODULE Spec2Model ----
\* Model of duckai's src/serve/mod.rs: the server entry point `run`, the
\* bearer-token check AppState::valid_key, the router with its CORS layer,
\* and the Error -> HTTP response mapping.
EXTENDS Naturals, Sequences, FiniteSets, TLC

VARIABLES
    pathKind,      \* what `path` names on disk: "missing", "directory", "file"
    pc,            \* position of `run`
    config,        \* Option<Config>: the value bound by `let config = init_config(path).await?`
    logLevel,      \* Option<Level> handed to the tracing subscriber
    appState,      \* Option<AppState>
    tcp_keepalive, \* Option<Duration>: `let tcp_keepalive` of run
    sigTask,       \* the spawned signal::graceful_shutdown task
    handleShutdown,\* per Handle: has graceful_shutdown been requested on it
    branch,        \* which arm of the match on (tls_cert, tls_key) was taken
    tlsLoaded,     \* RustlsConfig::from_pem_file was called and succeeded
    transport,     \* options applied to server.http_builder()
    listener,      \* the bound listener: "none", "tls", "plain"
    server,        \* lifecycle of serve(): "none", "Running", "Draining", "Stopped"
    conn,          \* per connection: "free", "inflight", "responded", "aborted"
    signals,       \* termination signals delivered so far
    drainSet,      \* connections in flight when the shutdown was requested
    failedAt,      \* the startup step whose error `run` propagated ("none" if none)
    result,        \* Option<Result<()>>: what `run` returned
    rpc,           \* position of the request inside the router
    rq,            \* the request being processed
    rresp,         \* Option<Response>
    handlerEntered,\* which route handler the router invoked for rq ("none" if none)
    authResult,    \* Option<Result>: what valid_key returned for rq
    rerr,          \* Option<Error>: the error the handler returned for rq
    upstreamCalled \* did the handler reach the outbound client for rq

vars == <<pathKind, pc, config, logLevel, appState, tcp_keepalive, sigTask,
          handleShutdown, branch, tlsLoaded, transport, listener, server, conn,
          signals, drainSet, failedAt, result, rpc, rq, rresp, handlerEntered,
          authResult, rerr, upstreamCalled>>

lifecycleVars == <<pathKind, pc, config, logLevel, tcp_keepalive, sigTask,
                   handleShutdown, branch, tlsLoaded, transport, listener, server,
                   conn, signals, drainSet, failedAt, result>>

requestVars == <<rpc, rq, rresp, handlerEntered, authResult, rerr, upstreamCalled>>

----------------------------------------------------------------------------
\* Bounds

MaxConns == 2        \* connections offered to the listener in one run
MaxSignals == 2      \* termination signals delivered in one run
MaxKeepalive == 2    \* tcp_keepalive seconds range over 0..MaxKeepalive

----------------------------------------------------------------------------
\* Option and Result values

None == << >>
Some(x) == << x >>
IsSome(o) == o # None
Unwrap(o) == o[1]

Ok == << "Ok" >>
Err(e) == << "Err", e >>
IsErr(r) == Len(r) = 2 /\ r[1] = "Err"

\* Duration::from_secs
DurationFromSecs(s) == [secs |-> s, nanos |-> 0]

\* config.tcp_keepalive.map(Duration::from_secs)
MapFromSecs(o) == IF o = None THEN None ELSE Some(DurationFromSecs(Unwrap(o)))

----------------------------------------------------------------------------
\* Error kinds. JsonExtractorRejection and InvalidApiKey are matched by name;
\* the others are the sources converted by `?` / map_err(Into::into) in run,
\* init_logger and init_config.

OtherErrorKinds == {"IoError", "SerdeYamlError", "DirectiveParseError", "SetGlobalDefaultError"}
ErrorKinds == {"JsonExtractorRejection", "InvalidApiKey"} \cup OtherErrorKinds

\* An Error value: its variant and, for a JSON rejection, the rejection's body text.
Error(kind, body_text) == [kind |-> kind, body_text |-> body_text]
RejectionTexts == {"Failed to parse the request body as JSON", "Expected request with Content-Type: application/json"}
Errors == {Error(k, None) : k \in ErrorKinds \ {"JsonExtractorRejection"}}
            \cup {Error("JsonExtractorRejection", Some(t)) : t \in RejectionTexts}

\* Display of an Error (self.to_string())
to_string(e) == << "display", e.kind >>

----------------------------------------------------------------------------
\* Configuration

ApiKeys == {"k1", "k2"}
Tokens == {"k1", "k2", "K1", ""}

Config(bind, tls_cert, tls_key, api_key, debug, keepalive) ==
    [bind |-> bind, tls_cert |-> tls_cert, tls_key |-> tls_key, api_key |-> api_key,
     debug |-> debug, timeout |-> "timeout", connect_timeout |-> "connect_timeout",
     tcp_keepalive |-> keepalive]

\* Config::default()
DefaultConfig == Config("0.0.0.0:8080", None, None, None, FALSE, None)

\* What serde_yaml can produce from a well-formed file
FileConfigs ==
    {Config("127.0.0.1:9000", c, k, a, d, ka) :
        c \in {None, Some("cert.pem")}, k \in {None, Some("key.pem")},
        a \in {None, Some("k1")}, d \in BOOLEAN,
        ka \in {None} \cup {Some(n) : n \in 0..MaxKeepalive}}

----------------------------------------------------------------------------
\* AppState::valid_key

\* TypedHeader<Authorization<Bearer>> carrying a token
Bearer(t) == [token |-> t]
BearerInputs == {None} \cup {Some(Bearer(t)) : t \in Tokens}

token(b) == b.token

\* bearer.as_deref().map(|b| b.token())
MapToken(bearer) == IF bearer = None THEN None ELSE Some(token(Unwrap(bearer)))

valid_key_AcceptAll(self_api_key, bearer) == Ok

valid_key(self_api_key, bearer) ==
    LET api_key == MapToken(bearer) IN
    IF IsSome(self_api_key) /\ Some(Unwrap(self_api_key)) # api_key
    THEN Err(Error("InvalidApiKey", None))
    ELSE Ok

----------------------------------------------------------------------------
\* impl IntoResponse for Error

ResponseError(message, type_field) == [message |-> message, type |-> type_field, param |-> None]

into_response_AllServerError(self) ==
    [status |-> 500, body |-> ResponseError(to_string(self), "server_error")]

into_response(self) ==
    CASE self.kind = "JsonExtractorRejection" ->
            [status |-> 400,
             body |-> ResponseError(<< "body_text", Unwrap(self.body_text) >>, "invalid_request_error")]
      [] self.kind = "InvalidApiKey" ->
            [status |-> 401,
             body |-> ResponseError(to_string(self), "invalid_request_error")]
      [] OTHER ->
            [status |-> 500,
             body |-> ResponseError(to_string(self), "server_error")]

----------------------------------------------------------------------------
\* run: startup

PathKinds == {"missing", "directory", "file"}

\* path.is_file()
is_file(kind) == kind = "file"

Returned(r, step) ==
    /\ pc' = "returned"
    /\ result' = Some(r)
    /\ failedAt' = step

\* init_config(path): the outcomes of reading and parsing an existing file are
\* the environment's (readable or not, well-formed YAML or not).
init_config_NotFound(kind) ==
    IF ~is_file(kind)
    THEN {Err(Error("IoError", None))}
    ELSE {Err(Error("IoError", None)), Err(Error("SerdeYamlError", None))}
            \cup {<< "Ok", c >> : c \in FileConfigs}

init_config(kind) ==
    IF ~is_file(kind)
    THEN {<< "Ok", DefaultConfig >>}
    ELSE {Err(Error("IoError", None)), Err(Error("SerdeYamlError", None))}
            \cup {<< "Ok", c >> : c \in FileConfigs}

\* let config = init_config(path).await?;
InitConfig ==
    /\ pc = "init_config"
    /\ \E r \in init_config(pathKind) :
          IF IsErr(r)
          THEN /\ Returned(r, "config")
               /\ UNCHANGED config
          ELSE /\ config' = Some(r[2])
               /\ pc' = "init_logger"
               /\ UNCHANGED <<result, failedAt>>
    /\ UNCHANGED <<pathKind, logLevel, appState, tcp_keepalive, sigTask, handleShutdown,
                   branch, tlsLoaded, transport, listener, server, conn, signals, drainSet>>
    /\ UNCHANGED requestVars

\* init_logger(debug): the directive "netlink_proto=error" is a constant that
\* parses; installing the global subscriber can fail.
init_logger(debug) ==
    {Err(Error("SetGlobalDefaultError", None)),
     << "Ok", IF debug THEN "DEBUG" ELSE "INFO" >>}

\* init_logger(config.debug)?;
InitLogger ==
    /\ pc = "init_logger"
    /\ \E r \in init_logger(Unwrap(config).debug) :
          IF IsErr(r)
          THEN /\ Returned(r, "logger")
               /\ UNCHANGED logLevel
          ELSE /\ logLevel' = Some(r[2])
               /\ pc' = "setup"
               /\ UNCHANGED <<result, failedAt>>
    /\ UNCHANGED <<pathKind, config, appState, tcp_keepalive, sigTask, handleShutdown,
                   branch, tlsLoaded, transport, listener, server, conn, signals, drainSet>>
    /\ UNCHANGED requestVars

\* HttpConfig::builder()...build() and build_client(http_config)
HttpConfig(cfg) ==
    [timeout |-> cfg.timeout, connect_timeout |-> cfg.connect_timeout,
     tcp_keepalive |-> cfg.tcp_keepalive]

\* AppState::builder().client(..).api_key(Arc::new(config.api_key)).build()
AppState(cfg) == [client |-> HttpConfig(cfg), api_key |-> cfg.api_key]

\* The Handle created by Handle::new() in run, and another Handle nobody signals.
Handles == {"handle", "other"}
NewHandle == "handle"

\* boot message, CORS layer, client, AppState, router, Handle::new(),
\* tokio::spawn(signal::graceful_shutdown(handle.clone())), tcp_keepalive
Setup ==
    /\ pc = "setup"
    /\ appState' = Some(AppState(Unwrap(config)))
    /\ sigTask' = "waiting"
    /\ tcp_keepalive' = MapFromSecs(Unwrap(config).tcp_keepalive)
    /\ pc' = "select"
    /\ UNCHANGED <<pathKind, config, logLevel, handleShutdown, branch, tlsLoaded,
                   transport, listener, server, conn, signals, drainSet, failedAt, result>>
    /\ UNCHANGED requestVars

\* match (config.tls_cert.as_ref(), config.tls_key.as_ref()): the (Some, Some) arm
UseTls_Either(cfg) == IsSome(cfg.tls_cert) \/ IsSome(cfg.tls_key)

UseTls(cfg) == IsSome(cfg.tls_cert) /\ IsSome(cfg.tls_key)

\* server.http_builder() options on the TLS arm
TlsTransport(keepalive) ==
    [http1_preserve_header_case |-> TRUE, http2 |-> TRUE, http2_timer |-> TRUE,
     http2_keep_alive_interval |-> keepalive]

\* server.http_builder() options on the plaintext arm
PlainTransport(keepalive) ==
    [http1_preserve_header_case |-> TRUE, http2 |-> TRUE, http2_timer |-> FALSE,
     http2_keep_alive_interval |-> keepalive]

NoTransport ==
    [http1_preserve_header_case |-> FALSE, http2 |-> FALSE, http2_timer |-> FALSE,
     http2_keep_alive_interval |-> None]

\* RustlsConfig::from_pem_file(cert, key).await : the files may be unreadable or malformed
from_pem_file(cert, key) == {Err(Error("IoError", None)), Ok}

LoadTls_Fallback ==
    /\ pc = "select"
    /\ UseTls(Unwrap(config))
    /\ \E r \in from_pem_file(Unwrap(config).tls_cert, Unwrap(config).tls_key) :
          IF IsErr(r)
          THEN /\ failedAt' = "tls"
               /\ branch' = "plain"
               /\ transport' = PlainTransport(tcp_keepalive)
               /\ pc' = "serve"
               /\ UNCHANGED <<tlsLoaded, result>>
          ELSE /\ tlsLoaded' = TRUE
               /\ branch' = "tls"
               /\ transport' = TlsTransport(tcp_keepalive)
               /\ pc' = "serve"
               /\ UNCHANGED <<result, failedAt>>
    /\ UNCHANGED <<pathKind, config, logLevel, appState, tcp_keepalive, sigTask,
                   handleShutdown, listener, server, conn, signals, drainSet>>
    /\ UNCHANGED requestVars

\* (Some(cert), Some(key)) arm up to the configured server
LoadTls ==
    /\ pc = "select"
    /\ UseTls(Unwrap(config))
    /\ \E r \in from_pem_file(Unwrap(config).tls_cert, Unwrap(config).tls_key) :
          IF IsErr(r)
          THEN /\ Returned(r, "tls")
               /\ UNCHANGED <<tlsLoaded, branch, transport>>
          ELSE /\ tlsLoaded' = TRUE
               /\ branch' = "tls"
               /\ transport' = TlsTransport(tcp_keepalive)
               /\ pc' = "serve"
               /\ UNCHANGED <<result, failedAt>>
    /\ UNCHANGED <<pathKind, config, logLevel, appState, tcp_keepalive, sigTask,
                   handleShutdown, listener, server, conn, signals, drainSet>>
    /\ UNCHANGED requestVars

\* `_` arm up to the configured server
PlainServer ==
    /\ pc = "select"
    /\ ~UseTls(Unwrap(config))
    /\ branch' = "plain"
    /\ transport' = PlainTransport(tcp_keepalive)
    /\ pc' = "serve"
    /\ UNCHANGED <<pathKind, config, logLevel, appState, tcp_keepalive, sigTask,
                   handleShutdown, tlsLoaded, listener, server, conn, signals,
                   drainSet, failedAt, result>>
    /\ UNCHANGED requestVars

\* server.handle(handle).serve(..).await: binding config.bind can fail
\* (address in use, permission denied); the error reaches .map_err(Into::into).
Bind ==
    /\ pc = "serve"
    /\ \E r \in {Err(Error("IoError", None)), Ok} :
          IF IsErr(r)
          THEN /\ Returned(r, "bind")
               /\ UNCHANGED <<listener, server>>
          ELSE /\ listener' = branch
               /\ server' = "Running"
               /\ pc' = "serving"
               /\ UNCHANGED <<result, failedAt>>
    /\ UNCHANGED <<pathKind, config, logLevel, appState, tcp_keepalive, sigTask,
                   handleShutdown, branch, tlsLoaded, transport, conn, signals, drainSet>>
    /\ UNCHANGED requestVars

----------------------------------------------------------------------------
\* run: serving and graceful shutdown

Conns == 1..MaxConns
InFlight == {c \in Conns : conn[c] = "inflight"}

\* The grace period signal::graceful_shutdown passes to Handle::graceful_shutdown:
\* None, the drain has no deadline.
GracePeriod == None

\* signal::graceful_shutdown(handle): wait for a termination signal, then
\* handle.graceful_shutdown(GracePeriod). Once the task has finished, a further
\* signal finds the installed listener and nobody waiting on it.
Signal ==
    /\ pc # "returned"
    /\ sigTask # "unspawned"
    /\ signals < MaxSignals
    /\ signals' = signals + 1
    /\ IF sigTask = "waiting"
       THEN /\ sigTask' = "done"
            /\ handleShutdown' = [handleShutdown EXCEPT ![NewHandle] = TRUE]
            /\ drainSet' = InFlight
       ELSE UNCHANGED <<sigTask, handleShutdown, drainSet>>
    /\ UNCHANGED <<pathKind, pc, config, logLevel, appState, tcp_keepalive, branch,
                   tlsLoaded, transport, listener, server, conn, failedAt, result>>
    /\ UNCHANGED requestVars

\* server.handle(handle): the Handle the server listens to
ServeHandle_Fresh == "other"

ServeHandle == NewHandle

\* the accept loop takes connections while no graceful shutdown is requested
Accepting_WhileDraining == server \in {"Running", "Draining"}

Accepting == server = "Running" /\ ~handleShutdown[ServeHandle]

Accept(c) ==
    /\ pc = "serving"
    /\ Accepting
    /\ conn[c] = "free"
    /\ \A d \in Conns : d < c => conn[d] # "free"
    /\ conn' = [conn EXCEPT ![c] = "inflight"]
    /\ UNCHANGED <<pathKind, pc, config, logLevel, appState, tcp_keepalive, sigTask,
                   handleShutdown, branch, tlsLoaded, transport, listener, server,
                   signals, drainSet, failedAt, result>>
    /\ UNCHANGED requestVars

\* an accepted connection's request is served and its response written
Complete(c) ==
    /\ pc = "serving"
    /\ conn[c] = "inflight"
    /\ conn' = [conn EXCEPT ![c] = "responded"]
    /\ UNCHANGED <<pathKind, pc, config, logLevel, appState, tcp_keepalive, sigTask,
                   handleShutdown, branch, tlsLoaded, transport, listener, server,
                   signals, drainSet, failedAt, result>>
    /\ UNCHANGED requestVars

\* the accept loop sees the shutdown request on its handle and ends
BeginDrain ==
    /\ pc = "serving"
    /\ server = "Running"
    /\ handleShutdown[ServeHandle]
    /\ server' = "Draining"
    /\ UNCHANGED <<pathKind, pc, config, logLevel, appState, tcp_keepalive, sigTask,
                   handleShutdown, branch, tlsLoaded, transport, listener, conn,
                   signals, drainSet, failedAt, result>>
    /\ UNCHANGED requestVars

\* serve() returns Ok(()) once the connections are gone: all finished, or the
\* grace period (if any) ran out and the rest were dropped
Stop_NoWait ==
    /\ pc = "serving"
    /\ server \in {"Running", "Draining"}
    /\ handleShutdown[ServeHandle]
    /\ conn' = [c \in Conns |-> IF conn[c] = "inflight" THEN "aborted" ELSE conn[c]]
    /\ server' = "Stopped"
    /\ pc' = "returned"
    /\ result' = Some(Ok)
    /\ UNCHANGED <<pathKind, config, logLevel, appState, tcp_keepalive, sigTask,
                   handleShutdown, branch, tlsLoaded, transport, listener,
                   signals, drainSet, failedAt>>
    /\ UNCHANGED requestVars

Stop ==
    /\ pc = "serving"
    /\ server = "Draining"
    /\ \/ /\ InFlight = {}
          /\ conn' = conn
       \/ /\ InFlight # {}
          /\ IsSome(GracePeriod)
          /\ conn' = [c \in Conns |-> IF conn[c] = "inflight" THEN "aborted" ELSE conn[c]]
    /\ server' = "Stopped"
    /\ pc' = "returned"
    /\ result' = Some(Ok)
    /\ UNCHANGED <<pathKind, config, logLevel, appState, tcp_keepalive, sigTask,
                   handleShutdown, branch, tlsLoaded, transport, listener,
                   signals, drainSet, failedAt>>
    /\ UNCHANGED requestVars

----------------------------------------------------------------------------
\* The router: CORS layer, routes, handlers

\* CorsLayer::new().allow_credentials(true).allow_headers(mirror_request())
\*     .allow_methods(mirror_request()).allow_origin(mirror_request())
CorsLayer_AnyOrigin ==
    [allow_credentials |-> TRUE, allow_headers |-> "mirror_request",
     allow_methods |-> "mirror_request", allow_origin |-> "any"]

CorsLayer ==
    [allow_credentials |-> TRUE, allow_headers |-> "mirror_request",
     allow_methods |-> "mirror_request", allow_origin |-> "mirror_request"]

\* The layers run ahead of the routes: Router::new()...layer(global_layer)
RouterLayers == << CorsLayer >>

\* The routes of the router
Routes ==
    {[path |-> "/v1/models", method |-> "GET", handler |-> "models"],
     [path |-> "/v1/chat/completions", method |-> "POST", handler |-> "chat_completions"]}

Methods == {"GET", "POST", "OPTIONS"}
Paths == {"/v1/models", "/v1/chat/completions", "/v1/other"}
Origins == {None, Some("https://example.com")}
RequestMethods == {None, Some("POST")}
RequestHeaders == {None, Some("X-Custom")}
Bodies == {"json", "malformed"}
Upstream == {"ok"} \cup OtherErrorKinds

Requests ==
    [method : Methods, path : Paths, bearer : BearerInputs, origin : Origins,
     acr_method : RequestMethods, acr_headers : RequestHeaders, body : Bodies,
     upstream : Upstream]

\* tower_http's Cors service, as configured by `layer`.
\* What it adds to the response to `req`: the origin
\* and credentials headers on every response, the methods and headers ones on
\* the response to a preflight (OPTIONS) request only.
CorsHeaders(layer, req) ==
    LET preflight == req.method = "OPTIONS" IN
    [allow_credentials |-> IF layer.allow_credentials THEN Some("true") ELSE None,
     allow_origin |-> IF layer.allow_origin = "mirror_request" THEN req.origin ELSE Some("*"),
     allow_methods |-> IF preflight
                       THEN IF layer.allow_methods = "mirror_request"
                            THEN req.acr_method ELSE Some("*")
                       ELSE None,
     allow_headers |-> IF preflight
                       THEN IF layer.allow_headers = "mirror_request"
                            THEN req.acr_headers ELSE Some("*")
                       ELSE None]

Response(status, body, cors) == [status |-> status, body |-> body, cors |-> cors]

\* a request reaches the router's service
Receive(req) ==
    /\ pc = "serving"
    /\ rpc = "idle"
    /\ rq' = Some(req)
    /\ rpc' = "cors"
    /\ rresp' = None
    /\ handlerEntered' = "none"
    /\ authResult' = None
    /\ rerr' = None
    /\ upstreamCalled' = FALSE
    /\ UNCHANGED lifecycleVars
    /\ UNCHANGED appState

\* the CORS layer: a preflight request is answered by the layer itself, any
\* other request is passed on to the routes
CorsCall ==
    /\ rpc = "cors"
    /\ IF Unwrap(rq).method = "OPTIONS"
       THEN /\ rresp' = Some(Response(200, None, CorsHeaders(RouterLayers[1], Unwrap(rq))))
            /\ rpc' = "responded"
       ELSE /\ rpc' = "route"
            /\ UNCHANGED rresp
    /\ UNCHANGED <<rq, handlerEntered, authResult, rerr, upstreamCalled>>
    /\ UNCHANGED lifecycleVars
    /\ UNCHANGED appState

\* route matching: the handler of the matching route is called; a known path
\* with another method is 405, an unknown path 404
Route ==
    /\ rpc = "route"
    /\ LET req == Unwrap(rq)
           hit == {r \in Routes : r.path = req.path /\ r.method = req.method}
           known == {r \in Routes : r.path = req.path}
       IN IF hit # {}
          THEN /\ handlerEntered' = (CHOOSE r \in hit : TRUE).handler
               /\ rpc' = "handler"
               /\ UNCHANGED rresp
          ELSE /\ rresp' = Some(Response(IF known # {} THEN 405 ELSE 404, None,
                                         CorsHeaders(RouterLayers[1], req)))
               /\ rpc' = "responded"
               /\ UNCHANGED handlerEntered
    /\ UNCHANGED <<rq, authResult, rerr, upstreamCalled>>
    /\ UNCHANGED lifecycleVars
    /\ UNCHANGED appState

\* The body extractor of chat_completions: a malformed body is rejected
\* before the handler body runs
ExtractJson(handler, req) ==
    IF handler = "chat_completions" /\ req.body = "malformed"
    THEN Err(Error("JsonExtractorRejection", Some("Failed to parse the request body as JSON")))
    ELSE Ok

\* route::models / route::chat_completions: check the bearer token with
\* state.valid_key, forward to the upstream through the shared client, and
\* return its answer or an Error, which axum turns into a response.
Handler ==
    /\ rpc = "handler"
    /\ LET req == Unwrap(rq)
           state == Unwrap(appState)
           extracted == ExtractJson(handlerEntered, req)
           auth == valid_key(state.api_key, req.bearer)
           cors == CorsHeaders(RouterLayers[1], req)
           respond(e) == LET r == into_response(e) IN Response(r.status, Some(r.body), cors)
       IN IF IsErr(extracted)
          THEN /\ rerr' = Some(extracted[2])
               /\ rresp' = Some(respond(extracted[2]))
               /\ UNCHANGED <<authResult, upstreamCalled>>
          ELSE /\ authResult' = Some(auth)
               /\ IF IsErr(auth)
                  THEN /\ rerr' = Some(auth[2])
                       /\ rresp' = Some(respond(auth[2]))
                       /\ UNCHANGED upstreamCalled
                  ELSE /\ upstreamCalled' = TRUE
                       /\ IF req.upstream = "ok"
                          THEN /\ rresp' = Some(Response(200, Some([upstream |-> "payload"]), cors))
                               /\ UNCHANGED rerr
                          ELSE /\ rerr' = Some(Error(req.upstream, None))
                               /\ rresp' = Some(respond(Error(req.upstream, None)))
    /\ rpc' = "responded"
    /\ UNCHANGED <<rq, handlerEntered>>
    /\ UNCHANGED lifecycleVars
    /\ UNCHANGED appState

NoRequest ==
    /\ rpc = "idle"
    /\ rq = None
    /\ rresp = None
    /\ handlerEntered = "none"
    /\ authResult = None
    /\ rerr = None
    /\ upstreamCalled = FALSE

Init ==
    /\ pathKind \in PathKinds
    /\ pc = "init_config"
    /\ config = None
    /\ logLevel = None
    /\ appState = None
    /\ tcp_keepalive = None
    /\ sigTask = "unspawned"
    /\ handleShutdown = [h \in Handles |-> FALSE]
    /\ branch = "none"
    /\ tlsLoaded = FALSE
    /\ transport = NoTransport
    /\ listener = "none"
    /\ server = "none"
    /\ conn = [c \in Conns |-> "free"]
    /\ signals = 0
    /\ drainSet = {}
    /\ failedAt = "none"
    /\ result = None
    /\ NoRequest

Next ==
    \/ InitConfig
    \/ InitLogger
    \/ Setup
    \/ LoadTls
    \/ PlainServer
    \/ Bind
    \/ Signal
    \/ \E c \in Conns : Accept(c)
    \/ \E c \in Conns : Complete(c)
    \/ BeginDrain
    \/ Stop

Spec == Init /\ [][Next]_vars

\* The runtime keeps polling every accepted connection's task.
FairSpec == Spec /\ \A c \in Conns : WF_vars(Complete(c))

\* The router of a server that started and is running, for each api_key setting
RouterConfigs ==
    {DefaultConfig} \cup {Config("127.0.0.1:9000", None, None, Some(k), FALSE, None) : k \in ApiKeys}

RouterInit ==
    /\ pathKind \in {"missing", "file"}
    /\ \E c \in RouterConfigs :
          /\ (pathKind = "missing") <=> (c = DefaultConfig)
          /\ config = Some(c)
          /\ logLevel = Some("INFO")
          /\ appState = Some(AppState(c))
          /\ tcp_keepalive = MapFromSecs(c.tcp_keepalive)
    /\ pc = "serving"
    /\ sigTask = "waiting"
    /\ handleShutdown = [h \in Handles |-> FALSE]
    /\ branch = "plain"
    /\ tlsLoaded = FALSE
    /\ transport = PlainTransport(tcp_keepalive)
    /\ listener = "plain"
    /\ server = "Running"
    /\ conn = [c \in Conns |-> "free"]
    /\ signals = 0
    /\ drainSet = {}
    /\ failedAt = "none"
    /\ result = None
    /\ NoRequest

\* the response is written to the connection; the service takes the next request
Deliver ==
    /\ rpc = "responded"
    /\ rpc' = "idle"
    /\ rq' = None
    /\ rresp' = None
    /\ handlerEntered' = "none"
    /\ authResult' = None
    /\ rerr' = None
    /\ upstreamCalled' = FALSE
    /\ UNCHANGED lifecycleVars
    /\ UNCHANGED appState

RouterNext ==
    \/ \E req \in Requests : Receive(req)
    \/ CorsCall
    \/ Route
    \/ Handler
    \/ Deliver

RouterSpec == RouterInit /\ [][RouterNext]_vars

----------------------------------------------------------------------------
\* Properties

BothTls(cfg) == cfg.tls_cert # None /\ cfg.tls_key # None
PartialTls(cfg) == (cfg.tls_cert # None) # (cfg.tls_key # None)

\* the credentials in `bearer` are what `api_key` asks for
CredentialsMatch(api_key, bearer) ==
    \/ api_key = None
    \/ /\ bearer # None
       /\ bearer[1].token = api_key[1]

ValidKeyContract(api_key, bearer, r) ==
    /\ (r = Ok) <=> CredentialsMatch(api_key, bearer)
    /\ (r # Ok) => r = << "Err", [kind |-> "InvalidApiKey", body_text |-> None] >>

\* C1: valid_key returns Ok exactly when api_key is unset or the bearer token
\* is present and equals the key; otherwise it returns Err(InvalidApiKey) and
\* no other error - for every key/bearer pair, and for every call a handler made.
C1_ValidKey ==
    /\ \A k \in {None} \cup {Some(a) : a \in ApiKeys} : \A b \in BearerInputs :
          ValidKeyContract(k, b, valid_key(k, b))
    /\ authResult # None =>
          ValidKeyContract(appState[1].api_key, rq[1].bearer, authResult[1])

C1_Witness ==
    /\ authResult # None
    /\ appState[1].api_key = Some("k1")
    /\ rq[1].bearer = Some([token |-> "K1"])
    /\ authResult[1] # Ok

C3_GracefulShutdown ==
    /\ [][/\ sigTask = "done" => \A c \in Conns : conn[c] = "free" => conn'[c] = "free"
          /\ \A c \in Conns : conn[c] = "inflight" => conn'[c] \in {"inflight", "responded"}
          /\ server' = "Stopped" => \A c \in drainSet' : conn'[c] = "responded"]_vars
    /\ \A c \in Conns : (conn[c] = "inflight") ~> (conn[c] = "responded")

C3_Witness ==
    /\ server = "Stopped"
    /\ drainSet # {}
    /\ \A c \in drainSet : conn[c] = "responded"

\* C4: the Error -> response mapping is total with three outcomes: a JSON
\* rejection is 400 invalid_request_error, InvalidApiKey is 401
\* invalid_request_error, any other kind is 500 server_error; param is null.
ErrorMappingContract(e, status, body) ==
    /\ e.kind = "JsonExtractorRejection" =>
          status = 400 /\ body.type = "invalid_request_error"
    /\ e.kind = "InvalidApiKey" =>
          status = 401 /\ body.type = "invalid_request_error"
    /\ e.kind \notin {"JsonExtractorRejection", "InvalidApiKey"} =>
          status = 500 /\ body.type = "server_error"
    /\ body.param = None

C4_ErrorMapping ==
    /\ \A e \in Errors :
          ErrorMappingContract(e, into_response(e).status, into_response(e).body)
    /\ rerr # None /\ rpc = "responded" =>
          ErrorMappingContract(rerr[1], rresp[1].status, rresp[1].body[1])

C4_Witness ==
    /\ rpc = "responded"
    /\ rerr # None
    /\ rerr[1].kind = "IoError"
    /\ rresp[1].status = 500

ReachedMatch == pc \in {"serving", "returned"} /\ failedAt \notin {"config", "logger"}

\* C5 (as stated): a TLS listener is bound exactly when both tls_cert and
\* tls_key are present, a plaintext one in the three other combinations, and
\* a partial TLS configuration never ends in a startup error.
C5_ListenerIffBothPresent ==
    ReachedMatch =>
        /\ (listener = "tls") <=> BothTls(config[1])
        /\ (listener = "plain") <=> ~BothTls(config[1])
        /\ PartialTls(config[1]) => ~(result # None /\ IsErr(result[1]))

\* C5 (amended): the TLS arm is taken exactly when both are present and the
\* plaintext arm otherwise; a listener is bound only when the certificate load
\* (TLS arm) and the bind succeed, and then it is the arm's listener. A
\* partial TLS configuration never loads a certificate, never fails on TLS
\* material and never binds a TLS listener; it can still fail on the bind.
C5_TlsSelection ==
    config # None =>
        /\ branch = "tls" => BothTls(config[1])
        /\ branch = "plain" => ~BothTls(config[1])
        /\ pc \in {"serve", "serving"} =>
              branch = (IF BothTls(config[1]) THEN "tls" ELSE "plain")
        /\ pc = "serving" => listener = branch
        /\ listener # "none" => listener = branch
        /\ listener = "tls" => tlsLoaded
        /\ ~BothTls(config[1]) =>
              ~tlsLoaded /\ failedAt # "tls" /\ listener # "tls"
        /\ ReachedMatch /\ result # None /\ PartialTls(config[1]) /\ IsErr(result[1]) =>
              failedAt = "bind"

C5_Witness ==
    /\ pc = "serving"
    /\ PartialTls(config[1])
    /\ listener = "plain"

\* C6 (as stated): every response carries Access-Control-Allow-Origin,
\* -Methods and -Headers equal to the request's Origin, requested method and
\* requested headers, and Access-Control-Allow-Credentials: true.
C6_MirrorsOnEveryResponse ==
    rpc = "responded" =>
        /\ rresp[1].cors.allow_origin = rq[1].origin
        /\ rresp[1].cors.allow_methods = rq[1].acr_method
        /\ rresp[1].cors.allow_headers = rq[1].acr_headers
        /\ rresp[1].cors.allow_credentials = Some("true")

\* C6 (amended): every response, errors included, carries
\* Access-Control-Allow-Credentials: true and an Access-Control-Allow-Origin
\* equal to the request's Origin; Access-Control-Allow-Methods and -Headers
\* mirror the requested method and headers on the response to a preflight
\* (OPTIONS) request, which the layer answers without calling a handler, and
\* are absent from every other response. No static allow-list is consulted.
C6_CorsMirror ==
    rpc = "responded" =>
        /\ rresp[1].cors.allow_credentials = Some("true")
        /\ rresp[1].cors.allow_origin = rq[1].origin
        /\ rq[1].method = "OPTIONS" =>
              /\ rresp[1].cors.allow_methods = rq[1].acr_method
              /\ rresp[1].cors.allow_headers = rq[1].acr_headers
              /\ handlerEntered = "none"
        /\ rq[1].method # "OPTIONS" =>
              /\ rresp[1].cors.allow_methods = None
              /\ rresp[1].cors.allow_headers = None

C6_Witness ==
    /\ rpc = "responded"
    /\ rresp[1].status = 401
    /\ rq[1].origin = Some("https://example.com")
    /\ rresp[1].cors.allow_origin = Some("https://example.com")
    /\ rresp[1].cors.allow_credentials = Some("true")

\* C7: with a configuration path that does not exist init_config returns the
\* all-defaults configuration, not an error, and startup goes on to the logger
\* and the listener with the default values.
C7_MissingConfigUsesDefaults ==
    (pathKind = "missing" /\ pc # "init_config") =>
        /\ config = Some(DefaultConfig)
        /\ failedAt # "config"
        /\ logLevel # None => logLevel = Some(IF DefaultConfig.debug THEN "DEBUG" ELSE "INFO")
        /\ appState # None => appState[1].api_key = DefaultConfig.api_key
        /\ listener # "none" =>
              listener = (IF BothTls(DefaultConfig) THEN "tls" ELSE "plain")

C7_Witness ==
    /\ pathKind = "missing"
    /\ pc = "serving"
    /\ config = Some(DefaultConfig)
    /\ listener # "none"

\* C8: when reading or parsing the configuration file, initialising the
\* logger, loading the TLS material or binding fails, run returns an error,
\* no listener exists, no connection is accepted and no request is handled.
C8_StartupFailureIsFatal ==
    failedAt # "none" =>
        /\ pc = "returned"
        /\ result # None /\ IsErr(result[1])
        /\ listener = "none"
        /\ server = "none"
        /\ \A c \in Conns : conn[c] = "free"

C8_Witness ==
    /\ failedAt = "tls"
    /\ pc = "returned"
    /\ IsErr(result[1])

\* C9: the lifecycle is Running -> Draining -> Stopped: Draining is entered
\* only from Running and only after a termination signal, Stopped only from
\* Draining with no connection in flight, Running is never re-entered and no
\* connection is accepted once the server has left Running.
C9_Lifecycle ==
    [][/\ (server' = "Running" /\ server # "Running") => server = "none"
       /\ (server' = "Draining" /\ server # "Draining") =>
             server = "Running" /\ sigTask = "done" /\ signals >= 1
       /\ (server' = "Stopped" /\ server # "Stopped") =>
             server = "Draining" /\ InFlight = {} /\ \A c \in Conns : conn'[c] # "inflight"
       /\ server \in {"Draining", "Stopped"} =>
             /\ server' \in {"Draining", "Stopped"}
             /\ \A c \in Conns : conn[c] = "free" => conn'[c] = "free"
       /\ server = "Stopped" => server' = "Stopped"]_vars

C9_Witness ==
    /\ server = "Stopped"
    /\ signals >= 2
    /\ \E c \in Conns : conn[c] = "responded"

\* C10 (as stated): whichever arm is taken, the server's HTTP builder gets
\* header-case preservation, HTTP/2 with the HTTP/2 timer, and the keep-alive
\* interval made from tcp_keepalive seconds (absent when not configured).
C10_SameTransportOnBothBranches ==
    pc \in {"serve", "serving"} =>
        transport =
            [http1_preserve_header_case |-> TRUE, http2 |-> TRUE, http2_timer |-> TRUE,
             http2_keep_alive_interval |->
                IF config[1].tcp_keepalive = None THEN None
                ELSE Some([secs |-> config[1].tcp_keepalive[1], nanos |-> 0])]

====
